---- MODULE Spec2Model ----
(***************************************************************************)
(* csvsorter: a binary sort tree keyed by one CSV field, fed by a          *)
(* concurrent ingestion pipeline (src/csvsorter.go).                       *)
(*                                                                         *)
(* Strings are sequences of one-character strings, compared bytewise.      *)
(* The tree is a heap of nodes: heap[k] is the k-th node allocated,        *)
(* 0 is the nil pointer.                                                   *)
(***************************************************************************)
EXTENDS Integers, Sequences, FiniteSets, TLC

\* ------------------------------------------------------------------ bounds

\* most files a directory walk discovers
MaxFiles == 2
\* most lines, summed over all files of a pipeline run
MaxLines == 2
\* largest value of the -f option tried
MaxIndex == 3
\* most nodes of a tree built by the sequential tree harness
MaxNodes == 3
\* most lines of the file of the single-reader runs
MaxReadLines == 3
\* most lines of the file read while an interrupt flush runs
MaxFlushLines == 4
\* most lines, summed over the two files read at once
MaxOrderLines == 3
\* width of Go's uint, reduced from 64 so that 2^UintBits fits TLC's integers;
\* index - 1 still wraps to a value above every arity when index is 0
UintBits == 30

\* ----------------------------------------------------------------- strings

NIL == 0

\* byte value of a character
Code(c) ==
  CASE c = "," -> 44
    [] c = "a" -> 97
    [] c = "b" -> 98

Min(x, y) == IF x < y THEN x ELSE y

\* Go's s < t on strings: bytewise lexicographic order
StrLess(s, t) ==
  \E i \in 1..(Min(Len(s), Len(t)) + 1) :
    /\ \A j \in 1..(i - 1) : s[j] = t[j]
    /\ \/ i > Len(s) /\ i <= Len(t)
       \/ i <= Len(s) /\ i <= Len(t) /\ Code(s[i]) < Code(t[i])

RECURSIVE Split(_, _)
\* strings.Split(s, sep) for a one-character sep: n separators give n+1 fields
Split(s, sep) ==
  IF \A i \in 1..Len(s) : s[i] # sep
    THEN <<s>>
    ELSE LET i == CHOOSE k \in 1..Len(s) :
                    s[k] = sep /\ \A j \in 1..(k - 1) : s[j] # sep
         IN  <<SubSeq(s, 1, i - 1)>> \o Split(SubSeq(s, i + 1, Len(s)), sep)

\* ------------------------------------------------------------------- state

VARIABLES
  index,       \* -f: the 1-based field to sort by
  reverse,     \* -r
  mode,        \* "file" (-i or stdin), "dir" (-d), "both" (-d and -i)
  files,       \* the sources: files[i] is the sequence of lines of source i
  openFail,    \* the sources os.Open fails on
  walkErr,     \* filepath.Walk ends with an error after the files it found
  sortIndex,   \* Tree.sortIndex
  root,        \* Tree.root
  heap,        \* the Nodes allocated so far
  wg,          \* the WaitGroup counter
  pc,          \* position of main, builder, interrupt, dispatch, background
  rpc,         \* position of the reader of each source
  pos,         \* next line each reader scans
  walked,      \* number of sources backgroundTask has sent on fileStream
  filename,    \* the source ReadIncomingFiles has received last
  record,      \* the record BuildTreeFromStream has received last
  stack,       \* the traverseInOrder call stack of main and of interrupt
  out,         \* the records written to the csv.Writer, with who wrote them
  flushed,     \* number of records of out flushed to the destination
  exit,        \* how the process ended: [code, by]; code -1 while it runs
  began,       \* number of Nodes allocated when each Traverse was called
  sent,        \* history: the records each reader has sent on recordStream
  from,        \* history: the source of the record the builder holds
  origin       \* history: origin[k] is the source of the record of heap[k]

vars == <<index, reverse, mode, files, openFail, walkErr, sortIndex, root, heap,
          wg, pc, rpc, pos, walked, filename, record, stack, out, flushed,
          exit, began, sent, from, origin>>

config == <<index, reverse, mode, files, openFail, walkErr>>
tree == <<sortIndex, root, heap>>
hist == <<sent, from, origin>>

Tasks == {"main", "builder", "interrupt", "dispatch", "background"}
Walkers == {"main", "interrupt"}
Readers == 1..(MaxFiles + 1)

Running == exit.code = -1

\* ------------------------------------------------------------------- Tree

\* NewTree(index - 1), index a uint
NewTree(i) == (i - 1) % (2 ^ UintBits)

Node(value) == [val |-> value, left |-> NIL, right |-> NIL]

\* mutant of cmp: the comparison the other way round
cmp_Swapped(left, right, idx) == StrLess(right[idx + 1], left[idx + 1])

\* mutant of cmp: less or equal in place of less
cmp_LessEq(left, right, idx) == ~StrLess(right[idx + 1], left[idx + 1])

\* the Comparator Insert passes to Node.insert
cmp(left, right, idx) == StrLess(left[idx + 1], right[idx + 1])

\* mutant of insert: the new Node stored without the nil check
insert_Overwrite(h, n, value, idx) ==
  IF cmp(value, h[n].val, idx)
    THEN Append([h EXCEPT ![n].left = Len(h) + 1], Node(value))
    ELSE Append([h EXCEPT ![n].right = Len(h) + 1], Node(value))

RECURSIVE insert(_, _, _, _)
\* Node.insert on node n of heap h: the heap after the insertion
insert(h, n, value, idx) ==
  IF cmp(value, h[n].val, idx)
    THEN IF h[n].left = NIL
           THEN Append([h EXCEPT ![n].left = Len(h) + 1], Node(value))
           ELSE insert(h, h[n].left, value, idx)
    ELSE IF h[n].right = NIL
           THEN Append([h EXCEPT ![n].right = Len(h) + 1], Node(value))
           ELSE insert(h, h[n].right, value, idx)

\* mutant of InsertFatal: the record length check left out
InsertFatal_NoLength(h, r, idx, value) ==
  /\ r # NIL
  /\ idx >= Len(value)

\* the two log.Fatalf conditions of Tree.Insert
InsertFatal(h, r, idx, value) ==
  /\ r # NIL
  /\ \/ idx >= Len(value)
     \/ Len(value) # Len(h[r].val)

\* Tree.Insert when it returns: the new <<root, heap>>
Insert(h, r, idx, value) ==
  IF r = NIL
    THEN <<Len(h) + 1, Append(h, Node(value))>>
    ELSE <<r, insert(h, r, value, idx)>>

\* mutant of Call: reverse ignored
Call_NoReverse(st, h, n, rev) ==
  IF n = NIL
    THEN st
    ELSE Append(st, [node |-> n, first |-> h[n].left, second |-> h[n].right,
                     at |-> "first"])

\* mutant of Call: the call on second left out
Call_NoSecond(st, h, n, rev) ==
  IF n = NIL
    THEN st
    ELSE Append(st, [node |-> n,
                     first |-> IF rev THEN h[n].right ELSE h[n].left,
                     second |-> NIL,
                     at |-> "first"])

\* a call traverseInOrder(n, rev, visit): nil returns at once, otherwise a
\* frame that has read both children
Call(st, h, n, rev) ==
  IF n = NIL
    THEN st
    ELSE Append(st, [node |-> n,
                     first |-> IF rev THEN h[n].right ELSE h[n].left,
                     second |-> IF rev THEN h[n].left ELSE h[n].right,
                     at |-> "first"])

Top(st) == st[Len(st)]
Pop(st) == SubSeq(st, 1, Len(st) - 1)
SetAt(st, a) == [st EXCEPT ![Len(st)].at = a]


\* tree.Traverse(reverse, visit) of WriteTree, by main or by interrupt
Traverse(t) ==
  /\ Running
  /\ pc[t] = "write"
  /\ stack' = [stack EXCEPT ![t] = Call(<<>>, heap, root, reverse)]
  /\ began' = [began EXCEPT ![t] = Len(heap)]
  /\ pc' = [pc EXCEPT ![t] = "walk"]
  /\ UNCHANGED <<config, tree, wg, rpc, pos, walked, filename, record, out,
                 flushed, exit, hist>>

\* the records visit(node.val) can receive for Node n. Nothing orders the
\* traversal with an Insert running at the same time (a data race): the val
\* of a Node allocated since Traverse was called is read as stored or as the
\* zero value of the fresh Node, a Record with no field
visit(t, n) ==
  {heap[n].val} \cup (IF n > began[t] THEN {<<>>} ELSE {})

\* one step of traverseInOrder in its top frame: the call on first, the
\* visit (WriteTree's writer.Write), or the call on second, after which the
\* frame has nothing left to do and is dropped
traverseInOrder(t) ==
  /\ Running
  /\ pc[t] = "walk"
  /\ stack[t] # <<>>
  /\ LET st == stack[t]
         f == Top(st)
     IN  CASE f.at = "first" ->
                /\ stack' = [stack EXCEPT
                               ![t] = Call(SetAt(st, "visit"), heap, f.first, reverse)]
                /\ out' = out
           [] f.at = "visit" ->
                /\ stack' = [stack EXCEPT ![t] = SetAt(st, "second")]
                /\ \E v \in visit(t, f.node) :
                     out' = Append(out, [by |-> t, node |-> f.node, val |-> v])
           [] f.at = "second" ->
                /\ stack' = [stack EXCEPT
                               ![t] = Call(Pop(st), heap, f.second, reverse)]
                /\ out' = out
  /\ UNCHANGED <<config, tree, wg, pc, rpc, pos, walked, filename, record,
                 began, flushed, exit, hist>>

\* writer.Flush() of WriteTree, once Traverse has returned
WriteTree(t) ==
  /\ Running
  /\ pc[t] = "walk"
  /\ stack[t] = <<>>
  /\ flushed' = Len(out)
  /\ pc' = [pc EXCEPT ![t] = "return"]
  /\ UNCHANGED <<config, tree, wg, rpc, pos, walked, filename, record, stack, began,
                 out, exit, hist>>

\* ------------------------------------------------------------- WaitGroup

\* wg.Done() by a task whose own step leaves the positions p: a negative
\* counter panics; the Done that brings the counter to zero wakes main if it
\* is blocked in wg.Wait
Done(p, by) ==
  /\ wg' = wg - 1
  /\ IF wg - 1 < 0
       THEN /\ exit' = [code |-> 2, by |-> by]
            /\ pc' = p
       ELSE /\ exit' = exit
            /\ pc' = IF wg - 1 = 0 /\ p["main"] = "waiting"
                       THEN [p EXCEPT !["main"] = "woken"]
                       ELSE p

\* log.Fatal, log.Fatalf: os.Exit(1)
Fatal(by) == exit' = [code |-> 1, by |-> by]

\* ------------------------------------------------------------------ main

\* mutant of mainFlags: the check for two sources left out
mainFlags_NoConflict ==
  /\ Running
  /\ pc["main"] = "flags"
  /\ exit' = exit
  /\ pc' = [pc EXCEPT !["main"] = "builder"]
  /\ UNCHANGED <<config, tree, wg, rpc, pos, walked, filename, record, stack,
                 began, out, flushed, hist>>

\* dirname != "" && ifname != "": log.Fatal
mainFlags ==
  /\ Running
  /\ pc["main"] = "flags"
  /\ IF mode = "both"
       THEN Fatal("main") /\ pc' = pc
       ELSE exit' = exit /\ pc' = [pc EXCEPT !["main"] = "builder"]
  /\ UNCHANGED <<config, tree, wg, rpc, pos, walked, filename, record, stack, began,
                 out, flushed, hist>>

\* wg.Add(1); go BuildTreeFromStream(tree, recordStream)
mainBuilder ==
  /\ Running
  /\ pc["main"] = "builder"
  /\ wg' = wg + 1
  /\ pc' = [pc EXCEPT !["main"] = "notify", !["builder"] = "recv"]
  /\ UNCHANGED <<config, tree, rpc, pos, walked, filename, record, stack, began, out,
                 flushed, exit, hist>>

\* signal.Notify(sigChan, syscall.SIGINT); go func() { <-sigChan ... }()
mainNotify ==
  /\ Running
  /\ pc["main"] = "notify"
  /\ pc' = [pc EXCEPT !["main"] = "dispatch", !["interrupt"] = "signal"]
  /\ UNCHANGED <<config, tree, wg, rpc, pos, walked, filename, record, stack, began,
                 out, flushed, exit, hist>>

\* wg.Add(1); go ReadIncomingFiles(fileStream, recordStream, &wg)
mainDispatch ==
  /\ Running
  /\ pc["main"] = "dispatch"
  /\ wg' = wg + 1
  /\ pc' = [pc EXCEPT !["main"] = "background", !["dispatch"] = "recv"]
  /\ UNCHANGED <<config, tree, rpc, pos, walked, filename, record, stack, began, out,
                 flushed, exit, hist>>

\* mutant of mainBackground: the task started without wg.Add(1)
mainBackground_NoAdd ==
  /\ Running
  /\ pc["main"] = "background"
  /\ wg' = wg
  /\ pc' = [pc EXCEPT !["main"] = "done1", !["background"] = "send"]
  /\ UNCHANGED <<config, tree, rpc, pos, walked, filename, record, stack,
                 began, out, flushed, exit, hist>>

\* wg.Add(1); go backgroundTask()
mainBackground ==
  /\ Running
  /\ pc["main"] = "background"
  /\ wg' = wg + 1
  /\ pc' = [pc EXCEPT !["main"] = "done1", !["background"] = "send"]
  /\ UNCHANGED <<config, tree, rpc, pos, walked, filename, record, stack, began, out,
                 flushed, exit, hist>>

\* wg.Done()  // ReadIncomingFiles
mainDone1 ==
  /\ Running
  /\ pc["main"] = "done1"
  /\ Done([pc EXCEPT !["main"] = "done2"], "main")
  /\ UNCHANGED <<config, tree, rpc, pos, walked, filename, record, stack, began, out,
                 flushed, hist>>

\* wg.Done()  // BuildTreeFromStream
mainDone2 ==
  /\ Running
  /\ pc["main"] = "done2"
  /\ Done([pc EXCEPT !["main"] = "wait"], "main")
  /\ UNCHANGED <<config, tree, rpc, pos, walked, filename, record, stack, began, out,
                 flushed, hist>>

\* wg.Wait(): returns at once when the counter is zero, blocks otherwise
mainWait ==
  /\ Running
  /\ pc["main"] = "wait"
  /\ pc' = [pc EXCEPT !["main"] = IF wg = 0 THEN "write" ELSE "waiting"]
  /\ UNCHANGED <<config, tree, wg, rpc, pos, walked, filename, record, stack, began,
                 out, flushed, exit, hist>>

\* wg.Wait() woken by the Done that reached zero: it panics ("WaitGroup is
\* reused before previous Wait has returned") when an Add got in first
mainWoken ==
  /\ Running
  /\ pc["main"] = "woken"
  /\ IF wg # 0
       THEN exit' = [code |-> 2, by |-> "main"] /\ pc' = pc
       ELSE exit' = exit /\ pc' = [pc EXCEPT !["main"] = "write"]
  /\ UNCHANGED <<config, tree, wg, rpc, pos, walked, filename, record, stack, began,
                 out, flushed, hist>>

\* main returns after WriteTree: the process ends with status 0
mainReturn ==
  /\ Running
  /\ pc["main"] = "return"
  /\ exit' = [code |-> 0, by |-> "main"]
  /\ UNCHANGED <<config, tree, wg, pc, rpc, pos, walked, filename, record,
                 stack, began, out, flushed, hist>>

\* ------------------------------------------------------------- interrupt

\* <-sigChan: a SIGINT has arrived
interruptSignal ==
  /\ Running
  /\ pc["interrupt"] = "signal"
  /\ pc' = [pc EXCEPT !["interrupt"] = "write"]
  /\ UNCHANGED <<config, tree, wg, rpc, pos, walked, filename, record, stack, began,
                 out, flushed, exit, hist>>

\* os.Exit(0) after WriteTree
interruptExit ==
  /\ Running
  /\ pc["interrupt"] = "return"
  /\ exit' = [code |-> 0, by |-> "interrupt"]
  /\ UNCHANGED <<config, tree, wg, pc, rpc, pos, walked, filename, record,
                 stack, began, out, flushed, hist>>

\* -------------------------------------------------------- backgroundTask

\* fileStream <- path (or ifname), received by ReadIncomingFiles' range
backgroundSend ==
  /\ Running
  /\ pc["background"] = "send"
  /\ walked < Len(files)
  /\ pc["dispatch"] = "recv"
  /\ walked' = walked + 1
  /\ filename' = walked + 1
  /\ pc' = [pc EXCEPT !["dispatch"] = "add"]
  /\ UNCHANGED <<config, tree, wg, rpc, pos, record, stack, began, out, flushed,
                 exit, hist>>

\* the end of backgroundTask: log.Fatal(err) when the walk failed, wg.Done()
\* otherwise
backgroundDone ==
  /\ Running
  /\ pc["background"] = "send"
  /\ walked = Len(files)
  /\ IF walkErr
       THEN Fatal("background") /\ pc' = pc /\ wg' = wg
       ELSE Done([pc EXCEPT !["background"] = "done"], "background")
  /\ UNCHANGED <<config, tree, rpc, pos, walked, filename, record, stack, began, out,
                 flushed, hist>>

\* ----------------------------------------------------- ReadIncomingFiles

\* wg.Add(1); go ReadCSVFromFile(filename, recordStream, wg); the range over
\* fileStream, which is never closed, then waits for the next name
ReadIncomingFiles ==
  /\ Running
  /\ pc["dispatch"] = "add"
  /\ wg' = wg + 1
  /\ rpc' = [rpc EXCEPT ![filename] = "open"]
  /\ pc' = [pc EXCEPT !["dispatch"] = "recv"]
  /\ UNCHANGED <<config, tree, pos, walked, filename, record, stack, began, out,
                 flushed, exit, hist>>

\* ------------------------------------------------------- ReadCSVFromFile

\* os.Open(filename): log.Fatal(err) on failure
ReadCSVOpen(i) ==
  /\ Running
  /\ rpc[i] = "open"
  /\ IF i \in openFail
       THEN Fatal("reader") /\ rpc' = rpc
       ELSE exit' = exit /\ rpc' = [rpc EXCEPT ![i] = "scan"]
  /\ UNCHANGED <<config, tree, wg, pc, pos, walked, filename, record, stack, began,
                 out, flushed, hist>>

\* mutant of HasLine: an empty line does not end the loop
HasLine_NoBreak(i) == pos[i] <= Len(files[i])

\* the scan loop has a line to send: scanner.Scan() gave a non-empty line
HasLine(i) == pos[i] <= Len(files[i]) /\ files[i][pos[i]] # <<>>

\* mutant of Line: the lines taken from the end of the file
Line_Last(i) == files[i][Len(files[i]) - pos[i] + 1]

\* line := scanner.Text(): the line the scanner stands on
Line(i) == files[i][pos[i]]

\* stream <- strings.Split(line, ","), received by BuildTreeFromStream's range
ReadCSVSend(i) ==
  /\ Running
  /\ rpc[i] = "scan"
  /\ HasLine(i)
  /\ pc["builder"] = "recv"
  /\ record' = Split(Line(i), ",")
  /\ sent' = [sent EXCEPT ![i] = Append(@, Split(Line(i), ","))]
  /\ from' = i
  /\ pos' = [pos EXCEPT ![i] = @ + 1]
  /\ pc' = [pc EXCEPT !["builder"] = "insert"]
  /\ UNCHANGED <<config, tree, wg, rpc, walked, filename, stack, began, out, flushed,
                 exit, origin>>

\* end of input or an empty line: the loop ends, wg.Done()
ReadCSVDone(i) ==
  /\ Running
  /\ rpc[i] = "scan"
  /\ ~HasLine(i)
  /\ rpc' = [rpc EXCEPT ![i] = "done"]
  /\ Done(pc, "reader")
  /\ UNCHANGED <<config, tree, pos, walked, filename, record, stack, began, out,
                 flushed, hist>>

\* --------------------------------------------------- BuildTreeFromStream

\* tree.Insert(record) on the record just received
BuildTreeFromStream ==
  /\ Running
  /\ pc["builder"] = "insert"
  /\ IF InsertFatal(heap, root, sortIndex, record)
       THEN /\ Fatal("builder")
            /\ UNCHANGED <<root, heap, pc, origin>>
       ELSE /\ root' = Insert(heap, root, sortIndex, record)[1]
            /\ heap' = Insert(heap, root, sortIndex, record)[2]
            /\ origin' = Append(origin, from)
            /\ pc' = [pc EXCEPT !["builder"] = "recv"]
            /\ exit' = exit
  /\ UNCHANGED <<config, sortIndex, wg, rpc, pos, walked, filename, record,
                 stack, began, out, flushed, sent, from>>

\* ------------------------------------------------------------ the inputs

PipeLines == {<<>>, <<"a">>, <<"b">>, <<"b", ",", "a">>}

SeqsUpTo(S, n) == UNION {[1..k -> S] : k \in 0..n}

RECURSIVE FileLists(_, _)
\* the lists of n files with at most total lines between them
FileLists(n, total) ==
  IF n = 0
    THEN {<<>>}
    ELSE UNION {{<<f>> \o rest : rest \in FileLists(n - 1, total - Len(f))} :
                  f \in SeqsUpTo(PipeLines, total)}

\* the state when main starts, flags parsed and tree = NewTree(index - 1)
Started ==
  /\ sortIndex = NewTree(index)
  /\ root = NIL
  /\ heap = <<>>
  /\ wg = 0
  /\ pc = [t \in Tasks |-> IF t = "main" THEN "flags" ELSE "off"]
  /\ rpc = [i \in Readers |-> "off"]
  /\ pos = [i \in Readers |-> 1]
  /\ walked = 0
  /\ filename = 0
  /\ record = <<>>
  /\ stack = [t \in Walkers |-> <<>>]
  /\ out = <<>>
  /\ flushed = 0
  /\ exit = [code |-> -1, by |-> "none"]
  /\ began = [t \in Walkers |-> 0]
  /\ sent = [i \in Readers |-> <<>>]
  /\ from = 0
  /\ origin = <<>>

Init ==
  /\ index \in 1..2
  /\ reverse \in BOOLEAN
  /\ mode \in {"file", "dir", "both"}
  /\ files \in CASE mode = "file" -> FileLists(1, MaxLines)
                 [] mode = "dir" -> UNION {FileLists(n, MaxLines) : n \in 0..MaxFiles}
                 [] mode = "both" -> {<<>>}
  /\ openFail \in {{}} \cup {{i} : i \in 1..Len(files)}
  /\ walkErr \in IF mode = "dir" THEN BOOLEAN ELSE {FALSE}
  /\ Started

Next ==
  \/ mainFlags \/ mainBuilder \/ mainNotify \/ mainDispatch \/ mainBackground
  \/ mainDone1 \/ mainDone2 \/ mainWait \/ mainWoken \/ mainReturn
  \/ interruptSignal \/ interruptExit
  \/ \E t \in Walkers : Traverse(t) \/ traverseInOrder(t) \/ WriteTree(t)
  \/ backgroundSend \/ backgroundDone
  \/ ReadIncomingFiles
  \/ \E i \in Readers : ReadCSVOpen(i) \/ ReadCSVSend(i) \/ ReadCSVDone(i)
  \/ BuildTreeFromStream

Spec == Init /\ [][Next]_vars


\* ------------------------------------------------- the tree, sequentially

TreeFields == {<<"a">>, <<"a", "b">>, <<"b">>}
TreeRecords == [1..1 -> TreeFields] \cup [1..2 -> TreeFields]

\* a caller hands Insert a record while no traversal runs; the output of an
\* earlier traversal is discarded
TreeInsert(v) ==
  /\ Running
  /\ pc["main"] \in {"idle", "return"}
  /\ pc["builder"] = "recv"
  /\ Len(heap) < MaxNodes
  /\ record' = v
  /\ pc' = [pc EXCEPT !["main"] = "idle", !["builder"] = "insert"]
  /\ out' = <<>>
  /\ flushed' = 0
  /\ UNCHANGED <<config, tree, wg, rpc, pos, walked, filename, stack, began, exit, hist>>

\* a caller starts WriteTree on a fresh writer while no Insert runs
TreeWrite ==
  /\ Running
  /\ pc["main"] \in {"idle", "return"}
  /\ pc["builder"] = "recv"
  /\ pc' = [pc EXCEPT !["main"] = "write"]
  /\ out' = <<>>
  /\ flushed' = 0
  /\ UNCHANGED <<config, tree, wg, rpc, pos, walked, filename, record, stack, began,
                 exit, hist>>

InitTree ==
  /\ index \in 0..MaxIndex
  /\ reverse \in BOOLEAN
  /\ mode = "file"
  /\ files = <<>>
  /\ openFail = {}
  /\ walkErr = FALSE
  /\ sortIndex = NewTree(index)
  /\ root = NIL
  /\ heap = <<>>
  /\ wg = 0
  /\ pc = [t \in Tasks |-> CASE t = "main" -> "idle"
                             [] t = "builder" -> "recv"
                             [] OTHER -> "off"]
  /\ rpc = [i \in Readers |-> "off"]
  /\ pos = [i \in Readers |-> 1]
  /\ walked = 0
  /\ filename = 0
  /\ record = <<>>
  /\ stack = [t \in Walkers |-> <<>>]
  /\ out = <<>>
  /\ flushed = 0
  /\ exit = [code |-> -1, by |-> "none"]
  /\ began = [t \in Walkers |-> 0]
  /\ sent = [i \in Readers |-> <<>>]
  /\ from = 0
  /\ origin = <<>>

NextTree ==
  \/ \E v \in TreeRecords : TreeInsert(v)
  \/ BuildTreeFromStream
  \/ TreeWrite
  \/ Traverse("main") \/ traverseInOrder("main") \/ WriteTree("main")

SpecTree == InitTree /\ [][NextTree]_vars

\* ------------------------------------------------------ one reader's run

\* the lines of the source: no, one or two separators, empty fields
ReadLines == {<<>>, <<"a">>, <<",">>, <<"a", ",">>, <<",", "a">>, <<",", ",">>,
              <<"a", ",", "b">>}

InitRead ==
  /\ index = 1
  /\ reverse = FALSE
  /\ mode = "file"
  /\ files \in {<<f>> : f \in SeqsUpTo(ReadLines, MaxReadLines)}
  /\ openFail = {}
  /\ walkErr = FALSE
  /\ Started

\* a run in which no SIGINT arrives
NextRead ==
  \/ mainFlags \/ mainBuilder \/ mainNotify \/ mainDispatch \/ mainBackground
  \/ mainDone1 \/ mainDone2 \/ mainWait \/ mainWoken \/ mainReturn
  \/ Traverse("main") \/ traverseInOrder("main") \/ WriteTree("main")
  \/ backgroundSend \/ backgroundDone
  \/ ReadIncomingFiles
  \/ \E i \in Readers : ReadCSVOpen(i) \/ ReadCSVSend(i) \/ ReadCSVDone(i)
  \/ BuildTreeFromStream

SpecRead == InitRead /\ [][NextRead]_vars

\* ------------------------------------- one source and an interrupt flush

\* the lines of the source: two keys, a < b
FlushLines == {<<"a">>, <<"b">>}

\* one file of up to MaxFlushLines lines, the first of them b, read while a
\* SIGINT can arrive
InitFlush ==
  /\ index = 1
  /\ reverse = FALSE
  /\ mode = "file"
  /\ files \in {<<<<<<"b">>>> \o f>> : f \in SeqsUpTo(FlushLines, MaxFlushLines - 1)}
  /\ openFail = {}
  /\ walkErr = FALSE
  /\ Started

SpecFlush == InitFlush /\ [][Next]_vars

\* ------------------------------------------- two sources, read at once

OrderLines == {<<"a">>, <<"b">>}

\* a directory with two files of at most MaxOrderLines lines between them
InitOrder ==
  /\ index = 1
  /\ reverse = FALSE
  /\ mode = "dir"
  /\ files \in {fs \in SeqsUpTo(OrderLines, MaxOrderLines)
                           \X SeqsUpTo(OrderLines, MaxOrderLines) :
                  Len(fs[1]) + Len(fs[2]) <= MaxOrderLines}
  /\ openFail = {}
  /\ walkErr = FALSE
  /\ Started

SpecOrder == InitOrder /\ [][Next]_vars

\* ============================================================ the claims

Key(v) == v[sortIndex + 1]

\* C2: when a traversal of a tree built by Inserts has returned, the records
\* it visited are in non-decreasing order of field sortIndex (string
\* comparison) if reverse is false and in non-increasing order if it is true.
C2_TraverseSorted ==
  pc["main"] = "return" =>
    \A i, j \in 1..Len(out) :
      i < j => IF reverse
                 THEN ~StrLess(Key(out[i].val), Key(out[j].val))
                 ELSE ~StrLess(Key(out[j].val), Key(out[i].val))

\* a descending traversal of three records with two different keys has returned
C2_Witness ==
  /\ pc["main"] = "return"
  /\ reverse
  /\ sortIndex = 1
  /\ Len(out) = 3
  /\ StrLess(Key(out[3].val), Key(out[1].val))

RECURSIVE Subtree(_, _)
\* the nodes of the subtree of heap h rooted at n
Subtree(h, n) ==
  IF n = NIL THEN {} ELSE {n} \cup Subtree(h, h[n].left) \cup Subtree(h, h[n].right)

\* C3: after any sequence of successful Inserts, for every node N every record
\* in N.left's subtree has field sortIndex strictly less than N's and every
\* record in N.right's subtree has it equal to or greater than N's.
C3_BST ==
  \A n \in 1..Len(heap) :
    /\ \A m \in Subtree(heap, heap[n].left) :
         StrLess(Key(heap[m].val), Key(heap[n].val))
    /\ \A m \in Subtree(heap, heap[n].right) :
         ~StrLess(Key(heap[m].val), Key(heap[n].val))

\* a root with a smaller record on its left and an equal one on its right
C3_Witness ==
  /\ Len(heap) = 3
  /\ heap[root].left # NIL
  /\ heap[root].right # NIL
  /\ Key(heap[heap[root].right].val) = Key(heap[root].val)

SameArity == \A n \in 1..Len(heap) : Len(heap[n].val) = Len(heap[root].val)

Mismatch ==
  /\ pc["builder"] = "insert"
  /\ root # NIL
  /\ Len(record) # Len(heap[root].val)

\* C4: an Insert of a record whose arity differs from the first inserted
\* record's ends the process with status 1 and leaves the tree as it was; the
\* tree never changes afterwards (no later Insert); and every record stored in
\* the tree has the arity of the root record.
C4_ArityFatal ==
  /\ [](SameArity)
  /\ [][(Mismatch /\ BuildTreeFromStream) =>
          (exit'.code = 1 /\ heap' = heap /\ root' = root)]_vars
  /\ [][(~Running \/ Mismatch) => (heap' = heap /\ root' = root)]_vars

\* a record of another arity, with sortIndex in its range, has ended the run
C4_Witness ==
  /\ Mismatch
  /\ sortIndex < Len(record)
  /\ exit = [code |-> 1, by |-> "builder"]
  /\ Len(heap) = 2

\* C5: in every state with a non-empty tree, sortIndex < arity(schema),
\* because an Insert with sortIndex >= the record's arity is fatal, the first
\* Insert and the -f 0 case included.
C5_IndexInRange == root # NIL => sortIndex < Len(heap[root].val)


\* the lines of a source before its first empty line
Ingested(f) ==
  LET stop == {k \in 1..Len(f) : f[k] = <<>>}
      n == IF stop = {} THEN Len(f)
           ELSE (CHOOSE k \in stop : \A j \in stop : k <= j) - 1
  IN  SubSeq(f, 1, n)

RECURSIVE Join(_)
\* the fields of a record with a "," between them
Join(rec) ==
  IF Len(rec) = 1 THEN rec[1] ELSE rec[1] \o <<",">> \o Join(Tail(rec))

\* rec is line cut at every ","
IsSplitOf(rec, line) ==
  /\ Len(rec) >= 1
  /\ Join(rec) = line
  /\ \A k \in 1..Len(rec) : \A j \in 1..Len(rec[k]) : rec[k][j] # ","

RecordsOf(i) ==
  [k \in 1..Len(Ingested(files[i])) |-> Split(Ingested(files[i])[k], ",")]

RECURSIVE RecordsUpTo(_)
\* the records of sources 1..n, one after the other
RecordsUpTo(n) == IF n = 0 THEN <<>> ELSE RecordsUpTo(n - 1) \o RecordsOf(n)

AllRecords == RecordsUpTo(Len(files))
Stored == [k \in 1..Len(heap) |-> heap[k].val]
Count(seq, v) == Cardinality({k \in 1..Len(seq) : seq[k] = v})
Values(seq) == {seq[k] : k \in 1..Len(seq)}

\* a run whose input makes nothing fail
NoErrors ==
  /\ mode # "both"
  /\ openFail = {}
  /\ ~walkErr
  /\ \A k \in 1..Len(AllRecords) :
       /\ sortIndex < Len(AllRecords[k])
       /\ Len(AllRecords[k]) = Len(AllRecords[1])

NoInterrupt == pc["interrupt"] \in {"off", "signal"}
WaitReturned == Running /\ pc["main"] = "write"
ReadersDone ==
  /\ pc["background"] = "done"
  /\ pc["dispatch"] = "recv"
  /\ \A i \in 1..Len(files) : rpc[i] = "done"

\* C1: in a run without errors and without an interrupt, when main's wg.Wait
\* has returned and the final WriteTree is about to be performed, the tree
\* holds every record of every source exactly once.
C1_AllInserted ==
  (WaitReturned /\ NoErrors /\ NoInterrupt) =>
    \A v \in Values(AllRecords) \cup Values(Stored) :
      Count(Stored, v) = Count(AllRecords, v)

\* C6: a run without an interrupt never ends with status zero from main's
\* return after the final output when a record a reader has sent violates
\* the schema (Insert is fatal on it), not even when every reader has finished.
C6_SchemaErrorExitsNonZero ==
  ~(/\ exit = [code |-> 0, by |-> "main"]
    /\ NoInterrupt
    /\ ReadersDone
    /\ pc["builder"] = "insert"
    /\ InsertFatal(heap, root, sortIndex, record))

\* C7: in a run without errors, wg.Wait does not return before
\* backgroundTask has sent every source, ReadIncomingFiles has registered a
\* reader for each, and each reader has finished.
C7_WaitCoversReaders == (WaitReturned /\ NoErrors) => ReadersDone

\* C8: when wg.Wait has returned after every reader finished, the builder has
\* inserted every record sent on recordStream and no Insert is pending.
C8_Drained ==
  (WaitReturned /\ ReadersDone) =>
    /\ pc["builder"] = "recv"
    /\ Len(heap) = Len(RecordsUpTo(Len(files)))

\* C9: once the interrupt task has received the signal, the process ends only
\* by that task's os.Exit(0), after its WriteTree has traversed and flushed,
\* also in a run whose input makes nothing fail and in which nothing panics.
C9_InterruptExits ==
  (~NoInterrupt /\ ~Running /\ NoErrors /\ exit.code # 2) =>
    /\ exit = [code |-> 0, by |-> "interrupt"]
    /\ pc["interrupt"] = "return"

\* C11: when both a directory and a file are selected as the source, the run
\* ends in the fatal configuration error (exit status 1, raised by main) as
\* its only step: the consumer, the dispatcher, the feeder, the readers and
\* the interrupt task are never started, the WaitGroup is never touched, no
\* record is inserted and no record is ever written to the output.
C11_BothSourcesFatal ==
  /\ [](mode = "both" =>
         /\ \A t \in Tasks \ {"main"} : pc[t] = "off"
         /\ \A i \in Readers : rpc[i] = "off"
         /\ pc["main"] = "flags"
         /\ wg = 0
         /\ heap = <<>>
         /\ out = <<>>
         /\ flushed = 0
         /\ exit \in {[code |-> -1, by |-> "none"], [code |-> 1, by |-> "main"]})
  /\ [][mode = "both" => exit' = [code |-> 1, by |-> "main"]]_vars

C11_Witness ==
  /\ mode = "both"
  /\ exit = [code |-> 1, by |-> "main"]

\* C12: a traversal of the empty tree visits nothing; when a traversal of a
\* tree built by successful Inserts, with no Insert running meanwhile, has
\* returned, it has visited every node exactly once and each with the record
\* the node holds, so the visited records are a permutation of the inserted
\* ones, for reverse false and for reverse true.
C12_TraversePermutation ==
  pc["main"] = "return" =>
    /\ Len(out) = Len(heap)
    /\ \A n \in 1..Len(heap) :
         Cardinality({i \in 1..Len(out) : out[i].node = n}) = 1
    /\ \A i \in 1..Len(out) :
         /\ out[i].node \in 1..Len(heap)
         /\ out[i].val = heap[out[i].node].val

C12_Witness ==
  /\ pc["main"] = "return"
  /\ reverse
  /\ Len(heap) = MaxNodes
  /\ Len(out) = MaxNodes
  /\ \E n \in 1..Len(heap) : heap[n].left # NIL /\ heap[n].right # NIL

\* WriteTree has been entered by task t: its traversal runs or has returned
InWriteTree(t) == pc[t] \in {"walk", "return"}

\* C13: in one run the interrupt task and main never both execute WriteTree
\* on the shared writer, and no node's record is written to the output twice.
C13_OneTraversal ==
  /\ ~(InWriteTree("main") /\ InWriteTree("interrupt"))
  /\ \A i, j \in 1..Len(out) : i # j => out[i].node # out[j].node

\* the nodes whose records the interrupt task's WriteTree has written
Flushed == {out[i].node : i \in {j \in 1..Len(out) : out[j].by = "interrupt"}}

\* C14: when the interrupt task's flush is complete, the records it wrote
\* are a prefix of each source's record sequence: if the record of a node is
\* in the flush, so is the record of every node inserted earlier from the
\* same source, also when Inserts ran during the traversal.
C14_FlushIsPrefix ==
  pc["interrupt"] = "return" =>
    \A n \in Flushed :
      \A m \in 1..(n - 1) : origin[m] = origin[n] => m \in Flushed

\* the records Insert has stored from source i, in the order of the Inserts
InsertedFrom(i) ==
  LET idx == SelectSeq([k \in 1..Len(heap) |-> k], LAMBDA k : origin[k] = i)
  IN  [j \in 1..Len(idx) |-> heap[idx[j]].val]

\* C15: the consumer calls Insert on the records of each source in the
\* source's line order, however the records of other sources interleave:
\* the Inserts completed for source i are those of its first records, in
\* line order, and an Insert of a record of source i starts only when the
\* Inserts of all earlier records of source i are complete.
C15_InsertInLineOrder ==
  \A i \in 1..Len(files) :
    LET done == InsertedFrom(i)
    IN  /\ Len(done) <= Len(RecordsOf(i))
        /\ done = SubSeq(RecordsOf(i), 1, Len(done))
        /\ (pc["builder"] = "insert" /\ from = i) =>
             /\ Len(done) < Len(RecordsOf(i))
             /\ record = RecordsOf(i)[Len(done) + 1]

\* both records of one source are stored, a record of the other between them
C15_Witness ==
  /\ Len(files) = 2
  /\ Len(heap) = 3
  /\ origin = <<1, 2, 1>>
  /\ heap[1].val # heap[3].val

RECURSIVE Slot(_, _, _)
\* the first missing child slot on the descent of record v from node n
Slot(h, n, v) ==
  IF StrLess(Key(v), Key(h[n].val))
    THEN IF h[n].left = NIL THEN <<n, "left">> ELSE Slot(h, h[n].left, v)
    ELSE IF h[n].right = NIL THEN <<n, "right">> ELSE Slot(h, h[n].right, v)

\* the step adds exactly one node, a leaf holding the inserted record
LeafAdded ==
  /\ Len(heap') = Len(heap) + 1
  /\ heap'[Len(heap')] = [val |-> record, left |-> NIL, right |-> NIL]

\* the step leaves sortIndex, every existing node's record and every
\* existing non-nil child link unchanged
NodesKept ==
  /\ sortIndex' = sortIndex
  /\ \A n \in 1..Len(heap) :
       /\ heap'[n].val = heap[n].val
       /\ heap[n].left # NIL => heap'[n].left = heap[n].left
       /\ heap[n].right # NIL => heap'[n].right = heap[n].right

\* the step links the new leaf at the first missing child slot on the
\* descent path of the record, and at no other
LinkedAtSlot ==
  /\ root # NIL
  /\ \A n \in 1..Len(heap) :
       /\ heap'[n].left = IF Slot(heap, root, record) = <<n, "left">>
                            THEN Len(heap') ELSE heap[n].left
       /\ heap'[n].right = IF Slot(heap, root, record) = <<n, "right">>
                             THEN Len(heap') ELSE heap[n].right

\* no step removes or moves a node
NeverRemoved ==
  /\ Len(heap') >= Len(heap)
  /\ \A n \in 1..Len(heap) : heap'[n].val = heap[n].val

\* C16 as stated: every successful Insert adds exactly one new leaf holding
\* the inserted record at the first missing child slot on its descent path
\* and leaves sortIndex, the root, every existing record and every existing
\* non-nil child link unchanged; no node is ever removed or moved.
C16_InsertFrame_Stated ==
  [][/\ NeverRemoved
     /\ heap' # heap => /\ LeafAdded
                        /\ NodesKept
                        /\ LinkedAtSlot
                        /\ root' = root]_vars

\* C16 (amended): the first successful Insert, into the empty tree, makes
\* the root a new leaf holding the record; every later successful Insert
\* adds exactly one new leaf holding the record at the first missing child
\* slot on its descent path and leaves the root unchanged; every successful
\* Insert leaves sortIndex, every existing record and every existing non-nil
\* child link unchanged; only a successful Insert changes the tree, and no
\* node is ever removed or moved.
C16_InsertFrame ==
  [][/\ NeverRemoved
     /\ heap' # heap => /\ LeafAdded
                        /\ NodesKept
                        /\ IF root = NIL
                             THEN root' = Len(heap')
                             ELSE LinkedAtSlot /\ root' = root
     /\ heap' = heap => root' = root /\ sortIndex' = sortIndex]_vars

\* a third Insert has linked its leaf below a child of the root
C16_Witness ==
  /\ Len(heap) = 3
  /\ pc["builder"] = "recv"
  /\ heap[2].left = 3 \/ heap[2].right = 3

\* C17: traversal is stable with respect to insertion order: of two visited
\* records with equal values in field sortIndex, a completed ascending
\* traversal has visited the one inserted earlier first, and a completed
\* descending traversal the one inserted later first.
C17_StableOrder ==
  pc["main"] = "return" =>
    \A i, j \in 1..Len(out) :
      (i < j /\ Key(out[i].val) = Key(out[j].val)) =>
        IF reverse
          THEN out[i].node > out[j].node
          ELSE out[i].node < out[j].node

\* an ascending traversal has visited three records with the same key, not
\* all the same record
C17_Witness ==
  /\ pc["main"] = "return"
  /\ ~reverse
  /\ Len(out) = 3
  /\ Key(out[1].val) = Key(out[2].val)
  /\ Key(out[2].val) = Key(out[3].val)
  /\ out[1].val # out[2].val

\* the wg.Add(1) calls made so far: one for each task started
Adds ==
  Cardinality({t \in {"builder", "dispatch", "background"} : pc[t] # "off"})
    + Cardinality({i \in Readers : rpc[i] # "off"})

\* the wg.Done() calls made so far: main's two, backgroundTask's, the readers'
Dones ==
  (IF pc["main"] \in {"flags", "builder", "notify", "dispatch", "background",
                      "done1"} THEN 0 ELSE 1)
    + (IF pc["main"] \in {"flags", "builder", "notify", "dispatch",
                          "background", "done1", "done2"} THEN 0 ELSE 1)
    + (IF pc["background"] = "done" THEN 1 ELSE 0)
    + Cardinality({i \in Readers : rpc[i] = "done"})

\* C18: in every interleaving the WaitGroup counter is never negative: it is
\* the number of Adds made less the number of Dones made, and every Done
\* comes after the Add it matches (main's two after the Adds for the
\* dispatcher and the consumer, backgroundTask's and each reader's after
\* the Add made when the task was started).
C18_CounterNotNegative ==
  /\ wg >= 0
  /\ wg = Adds - Dones
  /\ Dones > 0 => pc["dispatch"] # "off" /\ pc["builder"] # "off"
  /\ pc["background"] = "done" => pc["main"] \notin {"flags", "builder", "notify",
                                                     "dispatch", "background"}
  /\ \A i \in Readers : rpc[i] # "off" => i <= walked

\* two readers, backgroundTask and main have all called Done
C18_Witness ==
  /\ Len(files) = 2
  /\ \A i \in 1..2 : rpc[i] = "done"
  /\ pc["background"] = "done"
  /\ Dones = 5
  /\ wg = 0

\* C19: with finitely many finite sources, no error and no interrupt, main's
\* wg.Wait returns and the final WriteTree is performed: the run never stops
\* in a state where tasks wait for each other, and it ends only by main
\* returning with status 0 after its WriteTree.
C19_WaitReturns ==
  (NoErrors /\ NoInterrupt) =>
    /\ Running => ENABLED NextRead
    /\ ~Running => pc["main"] = "return" /\ exit = [code |-> 0, by |-> "main"]
====
